---- MODULE Spec2Model ----
(***************************************************************************)
(* Model of the BLE telemetry drivers DL24TestLoad (src/dl24testload.py)   *)
(* and UD18UsbMeter (src/ud18usbmeter.py): device discovery (find_device), *)
(* the connect() coroutine with its three suspension points, and the       *)
(* notification handler handle_data with the two frame layouts.            *)
(***************************************************************************)
EXTENDS Integers, Sequences, FiniteSets, TLC

VARIABLES
    variant,        \* "DL24" (DL24TestLoad) or "UD18" (UD18UsbMeter)
    dev_name,       \* self.dev_name
    dev_mac_addr,   \* self.dev_mac_addr: None or Some(address)
    callback,       \* TRUE iff self.callback is not None
    device,         \* self.device: None or Some(scanned device)
    client,         \* self.client: None or Some(BleakClient object)
    pc,             \* where the connect() coroutine is suspended
    keep_trying,    \* the keep_trying argument of the current/last connect()
    last,           \* how the last finished connect() ended
    registered,     \* handle_data is registered with the link layer
    linked,         \* some client.connect() of this session returned true
    nscan,          \* BleakScanner.discover() calls made by the current connect()
    nlink,          \* client.connect() calls made by the current connect()
    nsub,           \* client.start_notify() calls made by the current connect()
    fd,             \* the last find_device() call: its input and its outcome
    arrived,        \* the frames the link layer has delivered, in order
    outcome,        \* what handle_data did with each of them
    delivered       \* the argument tuples self.callback was invoked with, in order

vars == <<variant, dev_name, dev_mac_addr, callback, device, client, pc,
          keep_trying, last, registered, linked, nscan, nlink, nsub, fd,
          arrived, outcome, delivered>>

-----------------------------------------------------------------------------
(* Bounds of the model *)

\* longest list BleakScanner.discover() returns
MaxScanLen == 2
\* most scan passes one connect(keep_trying=True) call makes
MaxScans == 2
\* most notifications delivered in one behaviour
MaxFrames == 2

-----------------------------------------------------------------------------
(* Python values *)

\* Python's None, and a value that is not None
None == <<>>
Some(x) == <<x>>

\* str.lower() on a string given as its sequence of ASCII codes
Lower(s) == [i \in DOMAIN s |-> IF s[i] \in 65..90 THEN s[i] + 32 ELSE s[i]]

\* x << n on Python's unbounded integers
Shl(x, n) == x * (2 ^ n)

\* data[i] of a bytearray (0-based); InRange is false where Python raises IndexError
InRange(data, i) == i < Len(data)
B(data, i) == data[i + 1]

\* Python integers that may pass 2^31 (the 32-bit energy field, times 10) are
\* held in two limbs: [hi, lo] stands for hi * 2^16 + lo with 0 <= lo < 2^16.
Limb == 2 ^ 16
Wide(h, l) == [hi |-> h + (l \div Limb), lo |-> l % Limb]
\* x << n for a byte x, as a wide integer
WideShl(x, n) == IF n >= 16 THEN Wide(x * (2 ^ (n - 16)), 0) ELSE Wide(0, x * (2 ^ n))
WideAdd(a, b) == Wide(a.hi + b.hi, a.lo + b.lo)
\* a * k for a small k
WideMul(a, k) == Wide(a.hi * k, a.lo * k)

\* float(n) / d, kept exact as the fraction n/d
Rat(n, d) == [num |-> n, den |-> d]

-----------------------------------------------------------------------------
(* The environment: what the scan primitive and the link layer can produce *)

DL24Name == "DL24_BLE"
UD18Name == "UD18_BLE"

\* the addresses "Ab" and "cd"; the address a caller may configure, "aB"
AddrAb == <<65, 98>>
AddrCd == <<99, 100>>
AddrConfigured == <<97, 66>>

Devices == [name : {DL24Name, UD18Name}, address : {AddrAb, AddrCd}]

RECURSIVE SeqsUpTo(_, _)
SeqsUpTo(S, n) ==
    IF n = 0 THEN {<<>>}
    ELSE LET shorter == SeqsUpTo(S, n - 1)
         IN  shorter \cup {Append(s, x) : s \in {t \in shorter : Len(t) = n - 1}, x \in S}

ScanResults == SeqsUpTo(Devices, MaxScanLen)

-----------------------------------------------------------------------------
(* find_device: one scan pass over the list BleakScanner.discover() returned *)

\* the loop as it would be if a scan pass without a match forgot the stored device
RECURSIVE find_device_from_forgetting(_, _, _, _, _)
find_device_from_forgetting(devices, i, dev, name, mac) ==
    IF i > Len(devices)
    THEN [ret |-> None, device |-> None, raised |-> FALSE]
    ELSE LET d == devices[i]
         IN  IF d.name = name
             THEN [ret |-> Some(d), device |-> Some(d), raised |-> FALSE]
             ELSE IF mac # None /\ dev = None
             THEN [ret |-> None, device |-> dev, raised |-> TRUE]
             ELSE IF mac # None /\ Lower(dev[1].address) = Lower(mac[1])
             THEN [ret |-> Some(d), device |-> Some(d), raised |-> FALSE]
             ELSE find_device_from_forgetting(devices, i + 1, dev, name, mac)

\* The loop of find_device from the i-th scanned device on. `dev` is
\* self.device as it is when find_device is entered; the loop reads
\* self.device.address (not d.address), which raises AttributeError when
\* self.device is None.
RECURSIVE find_device_from(_, _, _, _, _)
find_device_from(devices, i, dev, name, mac) ==
    IF i > Len(devices)
    THEN [ret |-> None, device |-> dev, raised |-> FALSE]
    ELSE LET d == devices[i]
         IN  IF d.name = name
             THEN [ret |-> Some(d), device |-> Some(d), raised |-> FALSE]
             ELSE IF mac # None /\ dev = None
             THEN [ret |-> None, device |-> dev, raised |-> TRUE]
             ELSE IF mac # None /\ Lower(dev[1].address) = Lower(mac[1])
             THEN [ret |-> Some(d), device |-> Some(d), raised |-> FALSE]
             ELSE find_device_from(devices, i + 1, dev, name, mac)

find_device(devices, dev, name, mac) == find_device_from(devices, 1, dev, name, mac)

\* the record kept of a find_device() call
FdRecord(by, devices, before, r) ==
    [called |-> TRUE, by |-> by, devices |-> devices, before |-> before,
     ret |-> r.ret, raised |-> r.raised]

\* a client made for the lower-cased address, as the addresses are compared
BleakClient_lowercased(address) == [address |-> Lower(address), is_connected |-> FALSE]

\* BleakClient(address): a client object that is not connected yet
BleakClient(address) == [address |-> address, is_connected |-> FALSE]

-----------------------------------------------------------------------------
(* The initial state: a freshly constructed DL24TestLoad or UD18UsbMeter *)

Init ==
    /\ variant \in {"DL24", "UD18"}
    /\ dev_name = (IF variant = "DL24" THEN DL24Name ELSE UD18Name)
    /\ dev_mac_addr \in {None, Some(AddrConfigured)}
    /\ callback \in BOOLEAN
    /\ device = None
    /\ client = None
    /\ pc = "idle"
    /\ keep_trying = TRUE
    /\ last = "none"
    /\ registered = FALSE
    /\ linked = FALSE
    /\ nscan = 0
    /\ nlink = 0
    /\ nsub = 0
    /\ fd = [called |-> FALSE, by |-> "none", devices |-> <<>>, before |-> None,
             ret |-> None, raised |-> FALSE]
    /\ arrived = <<>>
    /\ outcome = <<>>
    /\ delivered = <<>>

config == <<variant, dev_name, dev_mac_addr, callback>>
frames == <<arrived, outcome, delivered>>

-----------------------------------------------------------------------------
(* connect(): one action per stretch of code between two awaits *)

\* connect() as it would be if the scan loop ran whether or not a device is stored
connect_always_scans(kt) ==
    /\ pc = "idle"
    /\ keep_trying' = kt
    /\ nsub' = 0
    /\ pc' = "scan"
    /\ nscan' = 1
    /\ nlink' = 0
    /\ UNCHANGED <<config, device, client, last, registered, linked, fd, frames>>

\* connect(keep_trying) is called. With no device stored the loop is entered
\* and find_device() awaits the scan; with a device stored the loop is skipped,
\* a BleakClient is made for it and client.connect() is awaited.
connect(kt) ==
    /\ pc = "idle"
    /\ keep_trying' = kt
    /\ nsub' = 0
    /\ IF device = None
       THEN /\ pc' = "scan"
            /\ nscan' = 1
            /\ nlink' = 0
            /\ client' = client
       ELSE /\ pc' = "link"
            /\ nscan' = 0
            /\ nlink' = 1
            /\ client' = Some(BleakClient(device[1].address))
    /\ UNCHANGED <<config, device, last, registered, linked, fd, frames>>

\* The scan awaited by connect()'s find_device() returns `devices`; connect()
\* runs on to its next await or to its return.
connect_find_device(devices) ==
    /\ pc = "scan"
    /\ LET r == find_device(devices, device, dev_name, dev_mac_addr)
       IN  /\ fd' = FdRecord("connect", devices, device, r)
           /\ device' = r.device
           /\ IF r.raised
              THEN /\ pc' = "idle"
                   /\ last' = "raised"
                   /\ UNCHANGED <<client, nscan, nlink>>
              ELSE IF r.device # None
              THEN /\ pc' = "link"
                   /\ client' = Some(BleakClient(r.device[1].address))
                   /\ nlink' = nlink + 1
                   /\ UNCHANGED <<last, nscan>>
              ELSE IF keep_trying
              THEN /\ nscan < MaxScans
                   /\ pc' = "scan"
                   /\ nscan' = nscan + 1
                   /\ UNCHANGED <<client, last, nlink>>
              ELSE /\ pc' = "idle"
                   /\ last' = "False"
                   /\ UNCHANGED <<client, nscan, nlink>>
    /\ UNCHANGED <<config, keep_trying, registered, linked, nsub, frames>>

\* the same stretch as it would be if res were not tested
connect_client_connect_unchecked(res) ==
    /\ pc = "link"
    /\ client' = Some([client[1] EXCEPT !.is_connected = res])
    /\ pc' = "notify"
    /\ linked' = (linked \/ res)
    /\ nsub' = nsub + 1
    /\ UNCHANGED <<config, device, keep_trying, last, registered, nscan, nlink, fd, frames>>

\* the same stretch as it would be if a failed link-connect went back to
\* scanning while keep_trying is set
connect_client_connect_rescans(res) ==
    /\ pc = "link"
    /\ client' = Some([client[1] EXCEPT !.is_connected = res])
    /\ IF res
       THEN /\ pc' = "notify"
            /\ linked' = TRUE
            /\ nsub' = nsub + 1
            /\ UNCHANGED <<last, nscan>>
       ELSE IF keep_trying /\ nscan < MaxScans
       THEN /\ pc' = "scan"
            /\ nscan' = nscan + 1
            /\ UNCHANGED <<last, linked, nsub>>
       ELSE /\ pc' = "idle"
            /\ last' = "False"
            /\ UNCHANGED <<linked, nsub, nscan>>
    /\ UNCHANGED <<config, device, keep_trying, registered, nlink, fd, frames>>

\* the same stretch as it would be if a failed link-connect dropped the stored
\* device, so that the next connect() scans afresh
connect_client_connect_forgets_device(res) ==
    /\ pc = "link"
    /\ client' = Some([client[1] EXCEPT !.is_connected = res])
    /\ IF res
       THEN /\ pc' = "notify"
            /\ linked' = TRUE
            /\ nsub' = nsub + 1
            /\ UNCHANGED <<last, device>>
       ELSE /\ pc' = "idle"
            /\ last' = "False"
            /\ device' = None
            /\ UNCHANGED <<linked, nsub>>
    /\ UNCHANGED <<config, keep_trying, registered, nscan, nlink, fd, frames>>

\* client.connect() returns res; on success start_notify() is awaited,
\* otherwise connect() returns False.
connect_client_connect(res) ==
    /\ pc = "link"
    /\ client' = Some([client[1] EXCEPT !.is_connected = res])
    /\ IF res
       THEN /\ pc' = "notify"
            /\ linked' = TRUE
            /\ nsub' = nsub + 1
            /\ last' = last
       ELSE /\ pc' = "idle"
            /\ last' = "False"
            /\ UNCHANGED <<linked, nsub>>
    /\ UNCHANGED <<config, device, keep_trying, registered, nscan, nlink, fd, frames>>

\* client.start_notify(uuid, self.handle_data) completes. Its result is not
\* looked at: when it succeeds the handler is registered and connect() returns
\* True; when it fails it raises, and the exception leaves connect().
connect_start_notify(ok) ==
    /\ pc = "notify"
    /\ pc' = "idle"
    /\ IF ok
       THEN /\ registered' = TRUE
            /\ last' = "True"
       ELSE /\ registered' = registered
            /\ last' = "raised"
    /\ UNCHANGED <<config, device, client, keep_trying, linked, nscan, nlink, nsub,
                   fd, frames>>

\* find_device() called by the application itself, outside connect()
find_device_call(devices) ==
    /\ pc = "idle"
    /\ LET r == find_device(devices, device, dev_name, dev_mac_addr)
       IN  /\ fd' = FdRecord("caller", devices, device, r)
           /\ device' = r.device
    /\ UNCHANGED <<config, client, pc, keep_trying, last, registered, linked,
                   nscan, nlink, nsub, frames>>

-----------------------------------------------------------------------------
(* handle_data: the notification handler of the two classes *)

\* the length a telemetry packet has, tested by both handlers
PacketLen == 36

\* "%02X" % d: the two hexadecimal digits of a byte
Hex(d) == <<d \div 16, d % 16>>

\* the branch taken when self.callback is None: the packet printed in hex
raw_dump(data) ==
    [kind |-> "dump", reading |-> None, text |-> [i \in DOMAIN data |-> Hex(data[i])]]

\* the else branch of the length test: pass
ignore_packet == [kind |-> "drop", reading |-> None, text |-> <<>>]

\* an IndexError raised by data[i]
index_error == [kind |-> "raise", reading |-> None, text |-> <<>>]

\* self.callback(v, a, mah, wh)
call_callback(v, a, mah, wh) ==
    [kind |-> "reading", reading |-> Some([v |-> v, a |-> a, mah |-> mah, wh |-> wh]),
     text |-> <<>>]

\* the DL24 parse as it would be with the voltage read as the UD18's 16 bits
parse_DL24_short_voltage(data) ==
    IF \E i \in 4..16 : ~InRange(data, i) THEN index_error
    ELSE call_callback(
        Rat(Shl(B(data, 5), 8) + B(data, 6), 10),
        Rat(Shl(B(data, 7), 16) + Shl(B(data, 8), 8) + B(data, 9), 1000),
        (Shl(B(data, 10), 16) + Shl(B(data, 11), 8) + B(data, 12)) * 10,
        WideMul(WideAdd(WideAdd(WideAdd(WideShl(B(data, 13), 24), WideShl(B(data, 14), 16)),
                                WideShl(B(data, 15), 8)), WideShl(B(data, 16), 0)), 10))

\* DL24TestLoad: the four values parsed out of a packet
parse_DL24(data) ==
    IF \E i \in 4..16 : ~InRange(data, i) THEN index_error
    ELSE call_callback(
        Rat(Shl(B(data, 4), 16) + Shl(B(data, 5), 8) + B(data, 6), 10),
        Rat(Shl(B(data, 7), 16) + Shl(B(data, 8), 8) + B(data, 9), 1000),
        (Shl(B(data, 10), 16) + Shl(B(data, 11), 8) + B(data, 12)) * 10,
        WideMul(WideAdd(WideAdd(WideAdd(WideShl(B(data, 13), 24), WideShl(B(data, 14), 16)),
                                WideShl(B(data, 15), 8)), WideShl(B(data, 16), 0)), 10))

\* the UD18 parse as it would be with the voltage read as the DL24's 24 bits
parse_UD18_long_voltage(data) ==
    IF \E i \in 4..16 : ~InRange(data, i) THEN index_error
    ELSE call_callback(
        Rat(Shl(B(data, 4), 16) + Shl(B(data, 5), 8) + B(data, 6), 100),
        Rat(Shl(B(data, 8), 8) + B(data, 9), 100),
        Shl(B(data, 10), 16) + Shl(B(data, 11), 8) + B(data, 12),
        Rat(WideAdd(WideAdd(WideAdd(WideShl(B(data, 13), 24), WideShl(B(data, 14), 16)),
                            WideShl(B(data, 15), 8)), WideShl(B(data, 16), 0)), 100))

\* the UD18 parse as it would be with the current read one byte early
parse_UD18_current_off_by_one(data) ==
    IF \E i \in {5, 6} \cup (8..16) : ~InRange(data, i) THEN index_error
    ELSE call_callback(
        Rat(Shl(B(data, 5), 8) + B(data, 6), 100),
        Rat(Shl(B(data, 7), 8) + B(data, 8), 100),
        Shl(B(data, 10), 16) + Shl(B(data, 11), 8) + B(data, 12),
        Rat(WideAdd(WideAdd(WideAdd(WideShl(B(data, 13), 24), WideShl(B(data, 14), 16)),
                            WideShl(B(data, 15), 8)), WideShl(B(data, 16), 0)), 100))

\* UD18UsbMeter: the four values parsed out of a packet
parse_UD18(data) ==
    IF \E i \in {5, 6} \cup (8..16) : ~InRange(data, i) THEN index_error
    ELSE call_callback(
        Rat(Shl(B(data, 5), 8) + B(data, 6), 100),
        Rat(Shl(B(data, 8), 8) + B(data, 9), 100),
        Shl(B(data, 10), 16) + Shl(B(data, 11), 8) + B(data, 12),
        Rat(WideAdd(WideAdd(WideAdd(WideShl(B(data, 13), 24), WideShl(B(data, 14), 16)),
                            WideShl(B(data, 15), 8)), WideShl(B(data, 16), 0)), 100))

\* the DL24 handler as it would be without the length test
handle_data_DL24_no_length_test(cb, data) ==
    IF ~cb THEN raw_dump(data) ELSE parse_DL24(data)

\* the DL24 handler as it would be if the length were tested before the
\* callback, so that a packet is parsed with or without a callback
handle_data_DL24_length_first(cb, data) ==
    IF Len(data) = PacketLen THEN parse_DL24(data)
    ELSE IF ~cb THEN raw_dump(data)
    ELSE ignore_packet

handle_data_DL24(cb, data) ==
    IF ~cb THEN raw_dump(data)
    ELSE IF Len(data) = PacketLen THEN parse_DL24(data)
    ELSE ignore_packet

handle_data_UD18(cb, data) ==
    IF ~cb THEN raw_dump(data)
    ELSE IF Len(data) = PacketLen THEN parse_UD18(data)
    ELSE ignore_packet

\* the handler of the class the session is an instance of
handle_data(var, cb, data) ==
    IF var = "DL24" THEN handle_data_DL24(cb, data) ELSE handle_data_UD18(cb, data)

\* delivery as it would be if readings were handed over newest first
Notification_newest_first(data) ==
    /\ registered
    /\ Len(arrived) < MaxFrames
    /\ LET o == handle_data(variant, callback, data)
       IN  /\ arrived' = Append(arrived, data)
           /\ outcome' = Append(outcome, o)
           /\ delivered' = IF o.kind = "reading"
                           THEN <<o.reading[1]>> \o delivered
                           ELSE delivered
    /\ UNCHANGED <<config, device, client, pc, keep_trying, last, registered, linked,
                   nscan, nlink, nsub, fd>>

\* delivery as it would be if the handler remembered the last packet and
\* ignored a packet equal to it
Notification_skips_repeat(data) ==
    /\ registered
    /\ Len(arrived) < MaxFrames
    /\ LET o == IF arrived # <<>> /\ arrived[Len(arrived)] = data
                THEN ignore_packet
                ELSE handle_data(variant, callback, data)
       IN  /\ arrived' = Append(arrived, data)
           /\ outcome' = Append(outcome, o)
           /\ delivered' = IF o.kind = "reading"
                           THEN Append(delivered, o.reading[1])
                           ELSE delivered
    /\ UNCHANGED <<config, device, client, pc, keep_trying, last, registered, linked,
                   nscan, nlink, nsub, fd>>

\* The link layer delivers one notification to the registered handler, which
\* runs to completion before the next one is delivered.
Notification(data) ==
    /\ registered
    /\ Len(arrived) < MaxFrames
    /\ LET o == handle_data(variant, callback, data)
       IN  /\ arrived' = Append(arrived, data)
           /\ outcome' = Append(outcome, o)
           /\ delivered' = IF o.kind = "reading"
                           THEN Append(delivered, o.reading[1])
                           ELSE delivered
    /\ UNCHANGED <<config, device, client, pc, keep_trying, last, registered, linked,
                   nscan, nlink, nsub, fd>>

-----------------------------------------------------------------------------
(* Frames the link layer delivers *)

\* n bytes, all zero
Zeros(n) == [i \in 1..n |-> 0]

\* `data` with data[at], data[at+1], ... replaced by `bytes`
Patch(data, at, bytes) ==
    [i \in DOMAIN data |->
        IF i - 1 >= at /\ i - 1 < at + Len(bytes) THEN bytes[i - at] ELSE data[i]]

\* Scenario A: 200, 1000, 5, 50 in bytes 4..16
ScenarioA == Patch(Zeros(PacketLen), 4, <<0, 0, 200, 0, 3, 232, 0, 0, 5, 0, 0, 0, 50>>)

\* Scenario B: 3000, 500, 100, 10000 in bytes 5..6, 8..9, 10..12, 13..16
ScenarioB == Patch(Zeros(PacketLen), 5, <<11, 184, 0, 1, 244, 0, 0, 100, 0, 0, 39, 16>>)

\* the short text-like frame of the firmware quirk: "AT+BAUD\r\n" and a byte more
TextFrame == <<65, 84, 43, 66, 65, 85, 68, 13, 10, 0>>

\* the frames of the session model: both scenarios, a short and a long frame
Frames == {ScenarioA, ScenarioB, TextFrame, Zeros(PacketLen + 1)}

\* the frames of the decoder model: every byte of a packet set alone, on top
\* of Frames and of frames one byte short and empty
DecoderFrames ==
    Frames
    \cup {Patch(Zeros(PacketLen), i, <<255>>) : i \in 0..(PacketLen - 1)}
    \cup {Patch(ScenarioA, i, <<129>>) : i \in {3, 17}}
    \cup {Patch(ScenarioB, i, <<129>>) : i \in {4, 7}}
    \cup {Zeros(PacketLen), Zeros(PacketLen - 1)}

-----------------------------------------------------------------------------
(* The session as connect() and the link layer drive it, with every input of
   the environment *)

Next ==
    \/ \E kt \in BOOLEAN : connect(kt)
    \/ \E devices \in ScanResults : connect_find_device(devices)
    \/ \E res \in BOOLEAN : connect_client_connect(res)
    \/ \E ok \in BOOLEAN : connect_start_notify(ok)
    \/ \E data \in Frames : Notification(data)

Spec == Init /\ [][Next]_vars

-----------------------------------------------------------------------------
(* The locator: the session, without notifications, of an application that
   also calls find_device() itself *)

NextLocate ==
    \/ \E kt \in BOOLEAN : connect(kt)
    \/ \E devices \in ScanResults : connect_find_device(devices)
    \/ \E res \in BOOLEAN : connect_client_connect(res)
    \/ \E ok \in BOOLEAN : connect_start_notify(ok)
    \/ \E devices \in ScanResults : find_device_call(devices)

SpecLocate == Init /\ [][NextLocate]_vars

-----------------------------------------------------------------------------
(* The decoder: a session with a callback whose first connect() found the
   device by name in a scan that returned it alone, connected and subscribed;
   the link layer then delivers any frames of DecoderFrames *)

SubscribedDevice == [name |-> dev_name, address |-> AddrAb]

InitDecode ==
    /\ variant \in {"DL24", "UD18"}
    /\ dev_name = (IF variant = "DL24" THEN DL24Name ELSE UD18Name)
    /\ dev_mac_addr = None
    /\ callback = TRUE
    /\ device = Some(SubscribedDevice)
    /\ client = Some([address |-> AddrAb, is_connected |-> TRUE])
    /\ pc = "idle"
    /\ keep_trying = TRUE
    /\ last = "True"
    /\ registered = TRUE
    /\ linked = TRUE
    /\ nscan = 1
    /\ nlink = 1
    /\ nsub = 1
    /\ fd = [called |-> TRUE, by |-> "connect", devices |-> <<SubscribedDevice>>,
             before |-> None, ret |-> Some(SubscribedDevice), raised |-> FALSE]
    /\ arrived = <<>>
    /\ outcome = <<>>
    /\ delivered = <<>>

NextDecode == \E data \in DecoderFrames : Notification(data)

SpecDecode == InitDecode /\ [][NextDecode]_vars

\* InitDecode is a state of the session model (checked as reachable under Spec)
InitDecodeReached == InitDecode

-----------------------------------------------------------------------------
(* What the specification says of a scan result *)

\* the device's advertised name equals the configured name
NameMatches(d) == d.name = dev_name

\* an address is configured and the device's own address equals it, case aside
AddrMatches(d) == dev_mac_addr # None /\ Lower(d.address) = Lower(dev_mac_addr[1])

\* no scanned device matches the configured name or the configured address
NoMatch(devices) ==
    \A i \in DOMAIN devices : ~NameMatches(devices[i]) /\ ~AddrMatches(devices[i])

\* the first device in scan order that matches by name / by address
FirstNamed(devices) ==
    CHOOSE i \in DOMAIN devices :
        NameMatches(devices[i]) /\ \A j \in 1..(i - 1) : ~NameMatches(devices[j])
FirstAddressed(devices) ==
    CHOOSE i \in DOMAIN devices :
        AddrMatches(devices[i]) /\ \A j \in 1..(i - 1) : ~AddrMatches(devices[j])

-----------------------------------------------------------------------------
(* C1: a connect(keep_trying=False) that began with no device stored and whose
   scan pass found no matching device has returned False, having made exactly
   one scan pass and no link-connect or subscribe attempt. *)
C1_GivenUpAfterOneScan ==
    (/\ pc = "idle"
     /\ ~keep_trying
     /\ nscan >= 1
     /\ fd.called /\ fd.by = "connect"
     /\ NoMatch(fd.devices))
    => (last = "False" /\ nscan = 1 /\ nlink = 0 /\ nsub = 0)

(* C3: whenever the scan result holds no device matching the configured name
   or address, with the address unset or set, find_device returns None and
   does not raise. *)
C3_NoMatchReturnsNone ==
    (fd.called /\ NoMatch(fd.devices)) => (fd.ret = None /\ ~fd.raised)

(* C4: with an address configured and no scanned device bearing the configured
   name, find_device returns the first device in scan order whose own address
   equals the configured address, case-insensitively. *)
C4_FirstAddressMatchReturned ==
    (/\ fd.called
     /\ dev_mac_addr # None
     /\ \A i \in DOMAIN fd.devices : ~NameMatches(fd.devices[i])
     /\ \E i \in DOMAIN fd.devices : AddrMatches(fd.devices[i]))
    => (~fd.raised /\ fd.ret = Some(fd.devices[FirstAddressed(fd.devices)]))

(* C5: with a name and an address configured, when a device with the
   configured name comes in scan order before any device with the configured
   address, find_device returns that device, whatever non-matching devices
   precede it. *)
C5_NameMatchFirstReturned ==
    (/\ fd.called
     /\ dev_mac_addr # None
     /\ \E i \in DOMAIN fd.devices : NameMatches(fd.devices[i])
     /\ \A j \in 1..(FirstNamed(fd.devices) - 1) : ~AddrMatches(fd.devices[j]))
    => (~fd.raised /\ fd.ret = Some(fd.devices[FirstNamed(fd.devices)]))

-----------------------------------------------------------------------------
(* What the specification's decoding table says of a 36-byte frame *)

\* bytes a..b (0-based, both included) of a frame
Bytes(f, a, b) == SubSeq(f, a + 1, b + 1)

\* the big-endian unsigned value of a byte string, most significant byte first
RECURSIVE BE(_)
BE(s) == IF s = <<>> THEN 0 ELSE BE(SubSeq(s, 1, Len(s) - 1)) * 256 + s[Len(s)]

\* the same as a wide integer, for the 32-bit field
RECURSIVE BEWide(_)
BEWide(s) ==
    IF s = <<>> THEN Wide(0, 0)
    ELSE WideAdd(WideMul(BEWide(SubSeq(s, 1, Len(s) - 1)), 256), Wide(0, s[Len(s)]))

TableReading(var, f) ==
    IF var = "DL24"
    THEN [v   |-> Rat(BE(Bytes(f, 4, 6)), 10),
          a   |-> Rat(BE(Bytes(f, 7, 9)), 1000),
          mah |-> BE(Bytes(f, 10, 12)) * 10,
          wh  |-> WideMul(BEWide(Bytes(f, 13, 16)), 10)]
    ELSE [v   |-> Rat(BE(Bytes(f, 5, 6)), 100),
          a   |-> Rat(BE(Bytes(f, 8, 9)), 100),
          mah |-> BE(Bytes(f, 10, 12)),
          wh  |-> Rat(BEWide(Bytes(f, 13, 16)), 100)]

\* the table's Readings of the 36-byte frames of a frame sequence, in order
RECURSIVE ExpectedReadings(_, _)
ExpectedReadings(var, fs) ==
    IF fs = <<>> THEN <<>>
    ELSE IF Len(Head(fs)) = 36
         THEN <<TableReading(var, Head(fs))>> \o ExpectedReadings(var, Tail(fs))
         ELSE ExpectedReadings(var, Tail(fs))

-----------------------------------------------------------------------------
(* C2: for both variants, a frame whose length is not 36 produces no Reading:
   the callback is not invoked for it and the handler does not raise, so every
   frame that arrived, later ones included, has been handled. *)
C2_WrongLengthDropped ==
    /\ Len(outcome) = Len(arrived)
    /\ \A i \in DOMAIN arrived :
          Len(arrived[i]) # 36 =>
              /\ outcome[i].kind \in {"drop", "dump"}
              /\ outcome[i].reading = None
    /\ Len(delivered) <= Cardinality({i \in DOMAIN arrived : Len(arrived[i]) = 36})

\* a short frame was dropped and the frame after it was parsed and delivered
C2_Witness ==
    /\ callback
    /\ Len(arrived) = 2
    /\ Len(arrived[1]) < 36
    /\ outcome[1].kind = "drop"
    /\ outcome[2].kind = "reading"

(* C6: with a callback registered, the callback invocations are exactly the
   table's Readings of the 36-byte frames that arrived, one per such frame and
   none for the others, in the order of arrival. *)
C6_ReadingsInArrivalOrder ==
    callback => delivered = ExpectedReadings(variant, arrived)

\* a wrong-length frame and a 36-byte frame arrived: one invocation
C6_Witness ==
    /\ callback
    /\ Len(arrived) = 2
    /\ \E i \in DOMAIN arrived : Len(arrived[i]) # 36
    /\ Len(delivered) = 1

(* C7: the callback is never invoked before the session is subscribed: once a
   Reading was delivered, a device is stored, a link-connect has succeeded and
   the handler is registered. *)
C7_NoReadingBeforeSubscribed ==
    (delivered # <<>> \/ \E i \in DOMAIN outcome : outcome[i].kind = "reading")
    => (device # None /\ client # None /\ linked /\ registered)

\* a Reading was delivered
C7_Witness == delivered # <<>> /\ linked /\ registered

(* C8: connect() returns True only if link-connect and subscribe succeeded,
   and returns False when the subscribe primitive fails after a successful
   link-connect. *)
C8_SubscribeFailureReturnsFalse ==
    [][\A ok \in BOOLEAN :
          connect_start_notify(ok) => last' = (IF ok THEN "True" ELSE "False")]_vars

-----------------------------------------------------------------------------
(* The connection state of the specification, read off the session. Found is
   passed inside the step that stores the device: between find_device()
   returning it and client.connect() being awaited connect() does not
   suspend. *)

ConnectionState ==
    CASE pc = "scan" -> "Scanning"
      [] pc \in {"link", "notify"} -> "Connecting"
      [] pc = "idle" /\ last = "none" -> "Idle"
      [] pc = "idle" /\ last = "True" -> "Subscribed"
      [] OTHER -> "Failed"

\* the order Idle, Scanning, Found, Connecting, Subscribed
Rank(st) ==
    CASE st = "Idle" -> 0
      [] st = "Scanning" -> 1
      [] st = "Found" -> 2
      [] st = "Connecting" -> 3
      [] st = "Subscribed" -> 4
      [] OTHER -> 5

(* C9 as stated: a connect() called again after connect() returned False
   performs a new scan pass before any link-connect attempt. *)
C9_RetryAlwaysRescans ==
    (last = "False" /\ pc \in {"link", "notify"}) => nscan >= 1

(* C9 as amended: within one connect() call the state only advances forward
   (or fails); a connect() called again restarts at Scanning when no device is
   stored and at Connecting, with no new scan pass, when one is stored; the
   state never returns to Idle. *)
C9_ForwardWithinCall ==
    [][/\ pc # "idle" =>
            \/ ConnectionState' = "Failed"
            \/ Rank(ConnectionState') >= Rank(ConnectionState)
       /\ (pc = "idle" /\ pc' # "idle") =>
            /\ pc' = (IF device = None THEN "scan" ELSE "link")
            /\ nscan' = (IF device = None THEN 1 ELSE 0)
       /\ ConnectionState # "Idle" => ConnectionState' # "Idle"]_vars

\* a retry after a failed link-connect is at its link-connect with no scan made
C9_Witness == last = "False" /\ pc = "link" /\ nscan = 0

-----------------------------------------------------------------------------
(* C10: under DL24 every 36-byte frame is delivered as voltage = BE24(bytes
   4..6)/10, current = BE24(bytes 7..9)/1000, capacity = BE24(bytes 10..12)*10,
   energy = BE32(bytes 13..16)*10; frames that agree on bytes 4..16 give the
   same Reading; bytes 4..16 = 00 00 C8 00 03 E8 00 00 05 00 00 00 32 give
   20.0 V, 1.0 A, 50 mAh, 500 Wh. *)
C10_DL24Decoding ==
    variant = "DL24" =>
        \A i \in DOMAIN arrived :
            Len(arrived[i]) = 36 =>
                /\ outcome[i].kind = "reading"
                /\ outcome[i].reading = Some(TableReading("DL24", arrived[i]))
                /\ \A j \in DOMAIN arrived :
                      (Len(arrived[j]) = 36 /\ Bytes(arrived[j], 4, 16) = Bytes(arrived[i], 4, 16))
                      => outcome[j].reading = outcome[i].reading
                /\ Bytes(arrived[i], 4, 16) = <<0, 0, 200, 0, 3, 232, 0, 0, 5, 0, 0, 0, 50>>
                      => LET r == outcome[i].reading[1]
                         IN  /\ r.v.num = 20 * r.v.den
                             /\ r.a.num = 1 * r.a.den
                             /\ r.mah = 50
                             /\ r.wh = Wide(0, 500)

\* the example frame and a frame differing from it outside bytes 4..16 arrived
C10_Witness ==
    /\ variant = "DL24"
    /\ Len(arrived) = 2
    /\ Len(arrived[1]) = 36
    /\ Bytes(arrived[1], 4, 16) = <<0, 0, 200, 0, 3, 232, 0, 0, 5, 0, 0, 0, 50>>
    /\ Len(arrived[2]) = 36
    /\ arrived[2] # arrived[1]
    /\ Bytes(arrived[2], 4, 16) = Bytes(arrived[1], 4, 16)
    /\ outcome[1].kind = "reading"

-----------------------------------------------------------------------------
\* the bytes of a packet the UD18 layout reads
UD18Fields == {5, 6} \cup (8..16)

(* C11: under UD18 every 36-byte frame is delivered as voltage = BE16(bytes
   5..6)/100, current = BE16(bytes 8..9)/100, capacity = BE24(bytes 10..12),
   energy = BE32(bytes 13..16)/100; frames that agree on those bytes give the
   same Reading, whatever bytes 4 and 7 hold; raw 3000, 500, 100, 10000 give
   30.0 V, 5.0 A, 100 mAh, 100.0 Wh. *)
C11_UD18Decoding ==
    variant = "UD18" =>
        \A i \in DOMAIN arrived :
            Len(arrived[i]) = 36 =>
                /\ outcome[i].kind = "reading"
                /\ outcome[i].reading = Some(TableReading("UD18", arrived[i]))
                /\ \A j \in DOMAIN arrived :
                      (/\ Len(arrived[j]) = 36
                       /\ \A k \in UD18Fields : arrived[j][k + 1] = arrived[i][k + 1])
                      => outcome[j].reading = outcome[i].reading
                /\ (/\ Bytes(arrived[i], 5, 6) = <<11, 184>>
                    /\ Bytes(arrived[i], 8, 9) = <<1, 244>>
                    /\ Bytes(arrived[i], 10, 12) = <<0, 0, 100>>
                    /\ Bytes(arrived[i], 13, 16) = <<0, 0, 39, 16>>)
                      => LET r == outcome[i].reading[1]
                         IN  /\ r.v.num = 30 * r.v.den
                             /\ r.a.num = 5 * r.a.den
                             /\ r.mah = 100
                             /\ r.wh.num = Wide(0, 100 * r.wh.den)

\* the example frame and the same frame with another byte 4 or 7 arrived
C11_Witness ==
    /\ variant = "UD18"
    /\ Len(arrived) = 2
    /\ arrived[1] = ScenarioB
    /\ Len(arrived[2]) = 36
    /\ arrived[2] # arrived[1]
    /\ \A k \in UD18Fields : arrived[2][k + 1] = arrived[1][k + 1]
    /\ outcome[2].kind = "reading"

-----------------------------------------------------------------------------
(* C12: decoding has no hidden state: for either variant, byte-identical
   frames are handled identically (the same Reading, or both dropped),
   whatever was delivered before them and whatever connect() was doing when
   they arrived. *)
C12_SameFrameSameOutcome ==
    \A i, j \in DOMAIN arrived :
        arrived[i] = arrived[j] =>
            /\ outcome[i] = outcome[j]
            /\ callback =>
                  (outcome[i].kind = "reading") = (Len(arrived[i]) = 36)

\* the same packet was delivered twice, with a callback, to a session whose
\* later connect() call is under way
C12_Witness ==
    /\ callback
    /\ Len(arrived) = 2
    /\ arrived[1] = arrived[2]
    /\ outcome[1].kind = "reading"
    /\ Len(delivered) = 2
    /\ ConnectionState = "Connecting"

-----------------------------------------------------------------------------
(* Encoding a Reading back into a frame, by the specification's table *)

\* the big-endian bytes of n, `width` of them
EncodeBE(n, width) == [i \in 1..width |-> (n \div (256 ^ (width - i))) % 256]

\* the four big-endian bytes of a wide integer below 2^32
EncodeBEWide(w) == <<w.hi \div 256, w.hi % 256, w.lo \div 256, w.lo % 256>>

\* a wide integer divided by a small k
WideDiv(w, k) == Wide(w.hi \div k, ((w.hi % k) * Limb + w.lo) \div k)

\* raw field values: small ones, the examples' and the greatest of each width
Raw16 == {3000, (2 ^ 16) - 1}
Raw24 == {200, (2 ^ 24) - 1}
Raw32 == {Wide(0, 50), Wide((2 ^ 16) - 1, (2 ^ 16) - 1)}

\* the Readings representable at the variant's granularity, over those values
Readings(var) ==
    IF var = "DL24"
    THEN [v   : {Rat(n, 10) : n \in {0, (2 ^ 24) - 1}},
          a   : {Rat(n, 1000) : n \in Raw24},
          mah : {n * 10 : n \in Raw24},
          wh  : {WideMul(w, 10) : w \in Raw32}]
    ELSE [v   : {Rat(n, 100) : n \in Raw16},
          a   : {Rat(n, 100) : n \in {500, (2 ^ 16) - 1}},
          mah : Raw24,
          wh  : {Rat(w, 100) : w \in Raw32}]

\* the frame `base` with the fields of r written at the table's positions
EncodeReading(var, r, base) ==
    IF var = "DL24"
    THEN Patch(Patch(Patch(Patch(base,
             4, EncodeBE(r.v.num, 3)),
             7, EncodeBE(r.a.num, 3)),
             10, EncodeBE(r.mah \div 10, 3)),
             13, EncodeBEWide(WideDiv(r.wh, 10)))
    ELSE Patch(Patch(Patch(Patch(base,
             5, EncodeBE(r.v.num, 2)),
             8, EncodeBE(r.a.num, 2)),
             10, EncodeBE(r.mah, 3)),
             13, EncodeBEWide(r.wh.num))

\* the frames the fields are written into: all zero, all 255
Bases == {Zeros(36), [i \in 1..36 |-> 255]}

\* The round trip: the subscribed session of the decoder model is sent the
\* encodings of the Readings
NextRoundTrip ==
    \E r \in Readings(variant), base \in Bases :
        Notification(EncodeReading(variant, r, base))

SpecRoundTrip == InitDecode /\ [][NextRoundTrip]_vars

\* every representable Reading of a variant with each of its encodings
EncodedDL24 ==
    {[reading |-> r, frame |-> EncodeReading("DL24", r, base)] :
        r \in Readings("DL24"), base \in Bases}
EncodedUD18 ==
    {[reading |-> r, frame |-> EncodeReading("UD18", r, base)] :
        r \in Readings("UD18"), base \in Bases}

(* C13: for either variant and every representable Reading, encoding its
   fields big-endian into a 36-byte frame at the table's byte positions and
   handing the frame to the handler delivers the original Reading. *)
C13_RoundTrip ==
    \A e \in (IF variant = "DL24" THEN EncodedDL24 ELSE EncodedUD18) :
        \A i \in DOMAIN arrived :
            arrived[i] = e.frame
            => (outcome[i].kind = "reading" /\ outcome[i].reading = Some(e.reading))

\* a Reading with the greatest voltage and energy went round, in a frame whose
\* other bytes are 255
C13_Witness ==
    /\ arrived # <<>>
    /\ arrived[1][1] = 255
    /\ outcome[1].kind = "reading"
    /\ \E r \in Readings(variant) :
          /\ r.v.num >= (2 ^ 16) - 1
          /\ arrived[1] = EncodeReading(variant, r, [i \in 1..36 |-> 255])
          /\ delivered[1] = r
          /\ (IF variant = "DL24" THEN r.wh ELSE r.wh.num) # Wide(0, 50)

-----------------------------------------------------------------------------
(* C14: with keep_trying=True a scan pass that finds no matching device never
   ends connect(): the session stays in Scanning and scans again. *)
C14_KeepTryingScansAgain ==
    [][(/\ pc = "scan"
        /\ keep_trying
        /\ fd' # fd
        /\ NoMatch(fd'.devices))
       => (pc' = "scan" /\ nscan' = nscan + 1 /\ last' = last)]_vars

-----------------------------------------------------------------------------
\* A subscribe has been attempted since the device was found: start_notify is
\* awaited in the very step in which a client.connect() returns true.
SubscribeSinceFound == linked

\* the link-connect under way is made against the device a scan pass returned
LinkAgainstFoundDevice ==
    /\ device # None
    /\ fd.called /\ ~fd.raised /\ fd.ret = device
    /\ NameMatches(device[1])
    /\ client # None
    /\ client[1].address = device[1].address

(* C15 as stated: every link-connect attempt is made against the address of a
   device a scan pass of the session returned, and follows Found immediately:
   no scan pass and no subscribe lies between the device being found and the
   attempt. *)
C15_LinkFollowsFound ==
    pc = "link" => (LinkAgainstFoundDevice /\ ~SubscribeSinceFound)

(* C15 as amended: every link-connect attempt is made against the address of
   the stored device, which a scan pass of the session returned; in the
   connect() call that found the device the attempt follows at once, with no
   further scan pass, no earlier link-connect and no subscribe; a later
   connect() call makes its attempt without any scan pass. *)
C15_LinkAgainstStoredDevice ==
    /\ [](pc = "link" =>
            /\ LinkAgainstFoundDevice
            /\ nlink = 1
            /\ nsub = 0
            /\ nscan >= 1 => ~SubscribeSinceFound)
    /\ [][(device = None /\ device' # None) =>
            (pc' = "link" /\ nlink' = 1 /\ nscan' = nscan /\ ~linked')]_vars
    /\ [][(pc = "idle" /\ pc' = "link") => (device # None /\ nscan' = 0)]_vars

\* a connect() called again after a subscription is at its link-connect
C15_Witness ==
    /\ pc = "link"
    /\ SubscribeSinceFound
    /\ registered
    /\ nscan = 0
    /\ client[1].address = device[1].address

-----------------------------------------------------------------------------
(* C16: when the link-connect primitive reports failure, connect() returns
   False whatever keep_trying is, with no further scan pass in that call and
   without invoking the subscribe primitive, so that call registers no
   handler. *)
C16_LinkFailureReturnsFalse ==
    [][(/\ pc = "link"
        /\ pc' # "link"
        /\ ~client'[1].is_connected)
       => (/\ pc' = "idle"
           /\ last' = "False"
           /\ nscan' = nscan
           /\ nlink' = nlink
           /\ nsub' = 0
           /\ registered' = registered
           /\ linked' = linked)]_vars

\* a connect(keep_trying=True) that found the device has returned False on a
\* failed link-connect, and no handler is registered
C16_Witness ==
    /\ pc = "idle"
    /\ last = "False"
    /\ keep_trying
    /\ nscan >= 1
    /\ nlink = 1
    /\ nsub = 0
    /\ client # None
    /\ ~client[1].is_connected
    /\ ~registered

-----------------------------------------------------------------------------
(* C17 as stated: once connect() has returned True, no later operation on the
   session (a notification, a further connect() call) makes it scan,
   link-connect or subscribe again or changes its connection state. *)
C17_SubscribedIsTerminal ==
    [][ConnectionState = "Subscribed" =>
          /\ ConnectionState' = "Subscribed"
          /\ UNCHANGED <<client, nscan, nlink, nsub>>]_vars

(* C17 as amended: once connect() has returned True, a notification makes the
   session neither scan, link-connect nor subscribe and leaves its connection
   state as it is, and the session never scans again; a further connect()
   call leaves Subscribed: it makes a new client for the stored device and
   attempts the link-connect again, without a scan pass. *)
C17_SubscribedUntilConnectAgain ==
    /\ [][ConnectionState = "Subscribed" =>
            IF arrived' # arrived
            THEN UNCHANGED <<pc, last, device, client, registered, linked,
                             nscan, nlink, nsub, fd>>
            ELSE /\ pc' = "link"
                 /\ nscan' = 0
                 /\ nlink' = 1
                 /\ nsub' = 0
                 /\ UNCHANGED <<device, registered, last, fd>>
                 /\ client' = Some([address |-> device[1].address,
                                    is_connected |-> FALSE])]_vars
    /\ [][registered => (registered' /\ pc' # "scan" /\ nscan' <= nscan)]_vars

\* after a True and a notification, a further connect() is at its link-connect
C17_Witness ==
    /\ last = "True"
    /\ arrived # <<>>
    /\ pc = "link"
    /\ nlink = 1
    /\ ~client[1].is_connected

-----------------------------------------------------------------------------
(* C18 as stated: find_device has no side effect: whatever the scan returns,
   the stored device, client, callback, name and address are after the call
   what they were before it. *)
C18_FindDeviceLeavesState ==
    [][(pc = "idle" /\ pc' = "idle" /\ fd' # fd)
       => UNCHANGED <<device, client, callback, dev_name, dev_mac_addr>>]_vars

(* C18 as amended: find_device changes nothing of the session but
   self.device: when it returns a device it has stored that device in
   self.device, and when it returns None or raises, self.device is what it
   was; client, callback, name and address are never touched by it. *)
C18_FindDeviceStoresDevice ==
    [][fd' # fd =>
          /\ fd'.before = device
          /\ device' = (IF fd'.ret # None THEN fd'.ret ELSE device)
          /\ UNCHANGED <<callback, dev_name, dev_mac_addr>>
          /\ pc = "idle" => UNCHANGED <<client, pc, last, registered, linked>>]_vars

\* a find_device() called by the application found a device and stored it
C18_Witness ==
    /\ fd.called
    /\ fd.by = "caller"
    /\ fd.before = None
    /\ fd.ret # None
    /\ device = fd.ret
    /\ client = None

-----------------------------------------------------------------------------
(* C19: a client exists only if a device has been found, and the stored
   device, once set by a matching scan pass, is never cleared or replaced by
   connect() failing, connect() succeeding, connect() being called again or a
   frame arriving. *)
C19_DeviceKept ==
    /\ [](client # None => (device # None /\ client[1].address = device[1].address))
    /\ [][device # None => device' = device]_vars

\* the device found is still stored after a subscription, a notification and
\* a later connect() that failed
C19_Witness ==
    /\ device # None
    /\ device = fd.ret
    /\ registered
    /\ arrived # <<>>
    /\ pc = "idle"
    /\ last = "False"

-----------------------------------------------------------------------------
(* C20: in a session constructed without a callback no frame of any length,
   36-byte packets included, is decoded or delivered as a Reading: each frame
   is only dumped, byte by byte as two hexadecimal digits, and the handler
   does not raise. *)
C20_RawDumpOnly ==
    ~callback =>
        /\ delivered = <<>>
        /\ Len(outcome) = Len(arrived)
        /\ \A i \in DOMAIN arrived :
              /\ outcome[i].kind = "dump"
              /\ outcome[i].reading = None
              /\ Len(outcome[i].text) = Len(arrived[i])
              /\ LET text == outcome[i].text
                     data == arrived[i]
                 IN  \A k \in DOMAIN data :
                        /\ text[k][1] < 16
                        /\ text[k][2] < 16
                        /\ text[k][1] * 16 + text[k][2] = data[k]

\* without a callback a 36-byte packet and a frame of another length were dumped
C20_Witness ==
    /\ ~callback
    /\ Len(arrived) = 2
    /\ Len(arrived[1]) = 36
    /\ Len(arrived[2]) # 36
    /\ outcome[1].kind = "dump"
    /\ outcome[2].kind = "dump"
    /\ \E k \in DOMAIN arrived[1] : arrived[1][k] > 15

====
